---- MODULE Spec2Model ----
(***************************************************************************)
(* Model of llm_tools/commands/image2image.py: the async generator         *)
(* image2image_command, its consumer (the chat host pulling replies) and   *)
(* the collaborators it calls.                                             *)
(*                                                                         *)
(* Each invocation i is a process whose position pc[i] is a suspension     *)
(* point of the generator (an await or a yield) or a terminal state.  The  *)
(* code between two suspension points runs atomically (cooperative         *)
(* scheduling), so it is one action.  log[i] is the history of what the    *)
(* invocation did to its collaborators: limiter decisions, replies handed  *)
(* to the consumer, calls, returns, raises and releases, in order.         *)
(*                                                                         *)
(* guidance_scale is a float in the code; it is kept in hundredths here    *)
(* (6.0 is 600, 0.99 is 99, 20.01 is 2001).                                *)
(***************************************************************************)
EXTENDS Integers, Sequences, FiniteSets, TLC

VARIABLES pc, req, cfg, processing, steps, guidance_scale, image_paths, exc, log

vars == <<pc, req, cfg, processing, steps, guidance_scale, image_paths, exc, log>>

(* ------------------------------ bounds -------------------------------- *)

NumInv == 2
MaxImages == 2

(* ------------------------- program constants -------------------------- *)

DefaultSteps == 25
DefaultGuidance == 600
StepsMin == 1
StepsMax == 100
GuidanceMin == 100
GuidanceMax == 2000

(* ------------------------------ domains ------------------------------- *)

Inv == 1..NumInv
Users == {"u1", "u2"}
Prompts == {"", "cat"}
Paths == {"a.png", "b.png"}
GenMsgs == {"timeout"}
OutPaths == {"/tmp/out.png"}

None == <<>>
Some(v) == <<v>>

StepsInputs == {None} \cup {Some(v) : v \in {StepsMin - 1, StepsMin, StepsMax, StepsMax + 1}}
GuidanceInputs ==
    {None} \cup {Some(v) : v \in {GuidanceMin - 1, GuidanceMin, GuidanceMax, GuidanceMax + 1}}

RECURSIVE SeqsUpTo(_, _)
SeqsUpTo(S, n) ==
    IF n = 0 THEN {<<>>}
    ELSE LET shorter == SeqsUpTo(S, n - 1)
         IN  shorter \cup {Append(s, x) : s \in shorter, x \in S}

ImageSets == SeqsUpTo(Paths, MaxImages)

Requests ==
    [user : Users, prompt : Prompts, steps : StepsInputs,
     guidance_scale : GuidanceInputs, images : ImageSets]

ConcRequests ==
    [user : Users, prompt : {"cat"}, steps : {None},
     guidance_scale : {None}, images : {<<>>, <<"a.png">>}]

NoReq == [user |-> "", prompt |-> "", steps |-> None, guidance_scale |-> None, images |-> <<>>]

Configs ==
    [image2image_steps : {None, Some(30), Some(StepsMax + 1)},
     image2image_guidance_scale : {None, Some(750)}]

NoConfig == [image2image_steps |-> None, image2image_guidance_scale |-> None]

(* ------------------------------ history ------------------------------- *)

Event(e, k, v) == [ev |-> e, kind |-> k, val |-> v]
Reply(k, v) == Event("reply", k, v)

Note(i, e) == log' = [log EXCEPT ![i] = Append(@, e)]

RECURSIVE Count(_, _)
Count(s, e) ==
    IF s = <<>> THEN 0
    ELSE (IF Head(s).ev = e THEN 1 ELSE 0) + Count(Tail(s), e)

Has(s, e) == \E k \in 1..Len(s) : s[k].ev = e
HasReply(s, k) == \E n \in 1..Len(s) : s[n].ev = "reply" /\ s[n].kind = k

(* ------------------------- pure code fragments ------------------------ *)

ConfigGet(entry, default) == IF entry = None THEN default ELSE entry[1]

(* "steps or default": a supplied 0 taken for absent *)
ResolveSteps_Falsy(r, c) ==
    IF r.steps = None \/ r.steps = Some(0)
    THEN ConfigGet(c.image2image_steps, DefaultSteps)
    ELSE r.steps[1]

ResolveSteps(r, c) ==
    IF r.steps = None THEN ConfigGet(c.image2image_steps, DefaultSteps) ELSE r.steps[1]

ResolveGuidance(r, c) ==
    IF r.guidance_scale = None
    THEN ConfigGet(c.image2image_guidance_scale, DefaultGuidance)
    ELSE r.guidance_scale[1]

(* the lower bound taken as exclusive *)
StepsInvalid_Exclusive(s) == s <= StepsMin \/ s > StepsMax

StepsInvalid(s) == s < StepsMin \/ s > StepsMax

GuidanceInvalid(g) == g < GuidanceMin \/ g > GuidanceMax

PromptMissing(p) == p = ""

(* the acknowledgment echoing the fallback values, not the resolved ones *)
AckReply_Defaults(s, g) == Reply("ack", <<DefaultSteps, DefaultGuidance>>)

AckReply(s, g) == Reply("ack", <<s, g>>)

(* the guard against more than one image left out *)
ValidationReply_AnyCount(paths, s, g) ==
    IF Len(paths) = 0 THEN Reply("missing_image", <<>>)
    ELSE IF StepsInvalid(s) THEN Reply("steps_error", <<s>>)
    ELSE IF GuidanceInvalid(g) THEN Reply("guidance_error", <<g>>)
    ELSE AckReply(s, g)

(* the range guards placed before the image guards *)
ValidationReply_RangeFirst(paths, s, g) ==
    IF StepsInvalid(s) THEN Reply("steps_error", <<s>>)
    ELSE IF GuidanceInvalid(g) THEN Reply("guidance_error", <<g>>)
    ELSE IF Len(paths) = 0 THEN Reply("missing_image", <<>>)
    ELSE IF Len(paths) > 1 THEN Reply("too_many_images", <<>>)
    ELSE AckReply(s, g)

ValidationReply(paths, s, g) ==
    IF Len(paths) = 0 THEN Reply("missing_image", <<>>)
    ELSE IF Len(paths) > 1 THEN Reply("too_many_images", <<>>)
    ELSE IF StepsInvalid(s) THEN Reply("steps_error", <<s>>)
    ELSE IF GuidanceInvalid(g) THEN Reply("guidance_error", <<g>>)
    ELSE AckReply(s, g)

GenArgs(p, paths, s, g) == <<p, paths[1], s, g>>

(* a fixed failure text instead of str(e) *)
ErrorReply_Generic(m) == Reply("error", <<"failed">>)

ErrorReply(m) == Reply("error", <<m>>)

(* request_id = user_id (line 52): the key of check_rate_limit and of
   remove_processing *)
RequestId(r) == r.user

(* the release keyed by something other than the sender *)
ReleaseKey_CommandName(r) == "image2image"

ReleaseKey(r) == RequestId(r)

(* Where the generator goes when the consumer pulls again after a reply. *)

(* the return after the rejection left out *)
AfterDenied_FallThrough == "check_prompt"

(* the admission check moved inside the try statement *)
AfterDenied_Cleanup == "finally"

AfterDenied == "done"

(* a return that leaves the generator without running the cleanup *)
AfterLastReply_NoCleanup == "done"

AfterLastReply == "finally"

(* Where an exception raised inside the try statement goes. *)

(* try/finally with no except clause *)
OnTryException_Uncaught == "finally"

OnTryException == "except"

(* Where GeneratorExit or CancelledError thrown inside the try statement
   goes: neither is an Exception, so past the except clause. *)

(* a bare except, or except BaseException *)
OnCancel_Caught == "except"

OnCancel == "finally"

(* Where the generator goes after the guards' reply. *)

(* the return after the range guards' replies left out *)
AfterValidation_NoReturn(r) ==
    IF r.kind \in {"missing_image", "too_many_images"} THEN "yield_fail" ELSE "yield_ack"

AfterValidation(r) == IF r.kind = "ack" THEN "yield_ack" ELSE "yield_fail"

(* ------------------------------- Init --------------------------------- *)

InitCommon ==
    /\ pc = [i \in Inv |-> IF req[i] = NoReq THEN "absent" ELSE "start"]
    /\ processing = {}
    /\ steps = [i \in Inv |-> None]
    /\ guidance_scale = [i \in Inv |-> None]
    /\ image_paths = [i \in Inv |-> <<>>]
    /\ exc = [i \in Inv |-> None]
    /\ log = [i \in Inv |-> <<>>]

Init ==
    /\ cfg \in Configs
    /\ req \in {[i \in Inv |-> IF i = 1 THEN r ELSE NoReq] : r \in Requests}
    /\ InitCommon

InitConc ==
    /\ cfg = NoConfig
    /\ req \in [Inv -> ConcRequests]
    /\ InitCommon

(* one invocation with any request, or concurrent invocations of one user *)
InitLive ==
    \/ Init
    \/ InitConc /\ \A i \in Inv : req[i].user = "u1"

(* --------------------------- the rate limiter -------------------------- *)

(* check_rate_limit(plugin, event, name, request_id): admission is possible
   only while the key is not in flight; a denial (in flight, or debounce or
   limit exceeded) is always possible and changes nothing. *)
MayAdmit(u, inflight) == u \notin inflight

AddProcessing(inflight, u) == inflight \cup {u}

RemoveProcessing(inflight, u) == inflight \ {u}

(* ------------------------------ actions ------------------------------- *)

Goto(i, l) == pc' = [pc EXCEPT ![i] = l]

(* lines 51-60: sender id, defaults, first debug log *)
Prelude(i) ==
    /\ pc[i] = "start"
    /\ steps' = [steps EXCEPT ![i] = Some(ResolveSteps(req[i], cfg))]
    /\ guidance_scale' = [guidance_scale EXCEPT ![i] = Some(ResolveGuidance(req[i], cfg))]
    /\ Goto(i, "rate_limit")
    /\ UNCHANGED <<req, cfg, processing, image_paths, exc, log>>

(* line 63: check_rate_limit ends without yielding *)
Admit(i) ==
    /\ pc[i] = "rate_limit"
    /\ MayAdmit(RequestId(req[i]), processing)
    /\ processing' = AddProcessing(processing, RequestId(req[i]))
    /\ Note(i, Event("admit", "", <<>>))
    /\ Goto(i, "check_prompt")
    /\ UNCHANGED <<req, cfg, steps, guidance_scale, image_paths, exc>>

(* lines 63-64: check_rate_limit yields its rejection, which is passed on *)
Deny(i) ==
    /\ pc[i] = "rate_limit"
    /\ log' = [log EXCEPT ![i] = @ \o <<Event("deny", "", <<>>), Reply("rejected", <<>>)>>]
    /\ Goto(i, "yield_denied")
    /\ UNCHANGED <<req, cfg, processing, steps, guidance_scale, image_paths, exc>>

(* line 65: the consumer pulls again after the rejection *)
DenyReturn(i) ==
    /\ pc[i] = "yield_denied"
    /\ Goto(i, AfterDenied)
    /\ UNCHANGED <<req, cfg, processing, steps, guidance_scale, image_paths, exc, log>>

(* lines 67-85: the prompt guard, then the call of the image extractor *)
CheckPrompt(i) ==
    /\ pc[i] = "check_prompt"
    /\ IF PromptMissing(req[i].prompt)
       THEN Note(i, Reply("usage", <<>>)) /\ Goto(i, "yield_fail")
       ELSE Note(i, Event("extract", "", <<>>)) /\ Goto(i, "await_extract")
    /\ UNCHANGED <<req, cfg, processing, steps, guidance_scale, image_paths, exc>>

(* lines 85-119: the extractor returns; image, steps and guidance_scale
   guards; the acknowledgment *)
ExtractReturn(i) ==
    /\ pc[i] = "await_extract"
    /\ image_paths' = [image_paths EXCEPT ![i] = req[i].images]
    /\ LET r == ValidationReply(req[i].images, steps[i][1], guidance_scale[i][1])
       IN  /\ Note(i, r)
           /\ Goto(i, AfterValidation(r))
    /\ UNCHANGED <<req, cfg, processing, steps, guidance_scale, exc>>

(* line 85 raises *)
ExtractRaise(i) ==
    /\ pc[i] = "await_extract"
    /\ exc' = [exc EXCEPT ![i] = Some("extract failed")]
    /\ Note(i, Event("raise", "extract", <<"extract failed">>))
    /\ Goto(i, OnTryException)
    /\ UNCHANGED <<req, cfg, processing, steps, guidance_scale, image_paths>>

(* lines 121-130: the consumer pulls after the acknowledgment; the call of
   api_client.image2image starts *)
CallGeneration(i) ==
    /\ pc[i] = "yield_ack"
    /\ Note(i, Event("gen_call", "",
                     GenArgs(req[i].prompt, image_paths[i], steps[i][1], guidance_scale[i][1])))
    /\ Goto(i, "await_gen")
    /\ UNCHANGED <<req, cfg, processing, steps, guidance_scale, image_paths, exc>>

(* lines 124-144: the call returns a path; the composite reply *)
GenReturn(i) ==
    /\ pc[i] = "await_gen"
    /\ \E out \in OutPaths :
          log' = [log EXCEPT ![i] =
                     @ \o <<Event("gen_return", "", <<out>>), Reply("result", <<out>>)>>]
    /\ Goto(i, "yield_result")
    /\ UNCHANGED <<req, cfg, processing, steps, guidance_scale, image_paths, exc>>

(* line 124 raises *)
GenRaise(i) ==
    /\ pc[i] = "await_gen"
    /\ \E m \in GenMsgs :
          /\ exc' = [exc EXCEPT ![i] = Some(m)]
          /\ Note(i, Event("raise", "generation", <<m>>))
    /\ Goto(i, OnTryException)
    /\ UNCHANGED <<req, cfg, processing, steps, guidance_scale, image_paths>>

(* lines 146-149: the except block *)
ExceptHandler(i) ==
    /\ pc[i] = "except"
    /\ Note(i, ErrorReply(exc[i][1]))
    /\ exc' = [exc EXCEPT ![i] = None]
    /\ Goto(i, "yield_error")
    /\ UNCHANGED <<req, cfg, processing, steps, guidance_scale, image_paths>>

LastYields == {"yield_fail", "yield_result", "yield_error"}
TryYields == LastYields \cup {"yield_ack"}
TryAwaits == {"await_extract", "await_gen"}

(* lines 82, 93, 101, 107, 112, 144, 149: the consumer pulls again after a
   last reply; the generator returns or falls off the try statement *)
Resume(i) ==
    /\ pc[i] \in LastYields
    /\ Goto(i, AfterLastReply)
    /\ UNCHANGED <<req, cfg, processing, steps, guidance_scale, image_paths, exc, log>>

Outcome(e) ==
    IF e = None THEN "done"
    ELSE IF e = Some("GeneratorExit") THEN "closed"
    ELSE "propagated"

(* lines 150-152: the finally block *)
Finally(i) ==
    /\ pc[i] = "finally"
    /\ processing' = RemoveProcessing(processing, ReleaseKey(req[i]))
    /\ Note(i, Event("release", "", <<>>))
    /\ Goto(i, Outcome(exc[i]))
    /\ UNCHANGED <<req, cfg, steps, guidance_scale, image_paths, exc>>

(* the host closes the generator while it is suspended at a yield:
   GeneratorExit is thrown there, which except Exception does not catch *)
Close(i) ==
    /\ pc[i] \in TryYields \cup {"yield_denied"}
    /\ Note(i, Event("cancel", "close", <<>>))
    /\ IF pc[i] = "yield_denied"
       THEN Goto(i, "closed") /\ UNCHANGED exc
       ELSE Goto(i, OnCancel) /\ exc' = [exc EXCEPT ![i] = Some("GeneratorExit")]
    /\ UNCHANGED <<req, cfg, processing, steps, guidance_scale, image_paths>>

(* the host cancels the task while the generator awaits a collaborator:
   CancelledError is raised there, which except Exception does not catch *)
Cancel(i) ==
    /\ pc[i] \in TryAwaits
    /\ Note(i, Event("cancel", "cancel", <<>>))
    /\ exc' = [exc EXCEPT ![i] = Some("CancelledError")]
    /\ Goto(i, OnCancel)
    /\ UNCHANGED <<req, cfg, processing, steps, guidance_scale, image_paths>>

(* ---------------- collaborators other than the two awaited ------------- *)

PreludeSites(r) ==
    {"get_sender_id", "debug_log"} \cup
    (IF r.steps = None \/ r.guidance_scale = None THEN {"config.get"} ELSE {})

(* lines 51-60 raise: outside the try statement *)
PreludeRaise(i) ==
    /\ pc[i] = "start"
    /\ \E site \in PreludeSites(req[i]) :
          /\ exc' = [exc EXCEPT ![i] = Some(site)]
          /\ Note(i, Event("raise", site, <<site>>))
    /\ Goto(i, "propagated")
    /\ UNCHANGED <<req, cfg, processing, steps, guidance_scale, image_paths>>

(* line 63 raises: outside the try statement *)
RateLimitRaise(i) ==
    /\ pc[i] = "rate_limit"
    /\ exc' = [exc EXCEPT ![i] = Some("check_rate_limit")]
    /\ Note(i, Event("raise", "check_rate_limit", <<"check_rate_limit">>))
    /\ Goto(i, "propagated")
    /\ UNCHANGED <<req, cfg, processing, steps, guidance_scale, image_paths>>

(* debug_log, plain_result, chain_result or Image.fromFileSystem raises
   inside the try statement: lines 70-71, 87-119, 135-144 *)
ReplyRaise(i) ==
    /\ \/ pc[i] = "check_prompt" /\ PromptMissing(req[i].prompt)
       \/ pc[i] \in TryAwaits
    /\ image_paths' = [image_paths EXCEPT ![i] =
                          IF pc[i] = "await_extract" THEN req[i].images ELSE @]
    /\ exc' = [exc EXCEPT ![i] = Some("reply failed")]
    /\ log' = [log EXCEPT ![i] =
                  (IF pc[i] = "await_gen"
                   THEN Append(@, Event("gen_return", "", <<CHOOSE o \in OutPaths : TRUE>>))
                   ELSE @) \o <<Event("raise", "reply", <<"reply failed">>)>>]
    /\ Goto(i, OnTryException)
    /\ UNCHANGED <<req, cfg, processing, steps, guidance_scale>>

(* logger.error, debug_log or plain_result raises in the except block *)
HandlerRaise(i) ==
    /\ pc[i] = "except"
    /\ exc' = [exc EXCEPT ![i] = Some("handler failed")]
    /\ Note(i, Event("raise", "handler", <<"handler failed">>))
    /\ Goto(i, "finally")
    /\ UNCHANGED <<req, cfg, processing, steps, guidance_scale, image_paths>>

(* remove_processing (mark kept or cleared) or the last debug_log (mark
   cleared) raises in the finally block *)
FinallyRaise(i) ==
    /\ pc[i] = "finally"
    /\ processing' \in {processing, RemoveProcessing(processing, ReleaseKey(req[i]))}
    /\ exc' = [exc EXCEPT ![i] = Some("finally failed")]
    /\ log' = [log EXCEPT ![i] =
                  @ \o <<Event("release", "", <<>>),
                         Event("raise", "finally", <<"finally failed">>)>>]
    /\ Goto(i, "propagated")
    /\ UNCHANGED <<req, cfg, steps, guidance_scale, image_paths>>

(* --------------------------- specifications ---------------------------- *)

Handler(i) ==
    \/ Prelude(i) \/ Admit(i) \/ Deny(i) \/ DenyReturn(i) \/ CheckPrompt(i)
    \/ ExtractReturn(i) \/ ExtractRaise(i) \/ CallGeneration(i)
    \/ GenReturn(i) \/ GenRaise(i) \/ ExceptHandler(i) \/ Resume(i) \/ Finally(i)

Host(i) == Close(i) \/ Cancel(i)

Fault(i) ==
    \/ PreludeRaise(i) \/ RateLimitRaise(i) \/ ReplyRaise(i)
    \/ HandlerRaise(i) \/ FinallyRaise(i)

Next == \E i \in Inv : Handler(i) \/ Host(i)

NextF == \E i \in Inv : Handler(i) \/ Host(i) \/ Fault(i)

Spec == Init /\ [][Next]_vars

SpecF == Init /\ [][NextF]_vars

SpecConc == InitConc /\ [][Next]_vars

(* the consumer keeps pulling and the awaited calls end: the steps of each
   invocation are weakly fair; the host's Close and Cancel are not *)
SpecLive == InitLive /\ [][Next]_vars /\ \A i \in Inv : WF_vars(Handler(i))

(* ------------------------------ properties ----------------------------- *)

Terminal(i) == pc[i] \in {"done", "closed", "propagated"}
Admitted(i) == Has(log[i], "admit")
Denied(i) == Has(log[i], "deny")
Releases(i) == Count(log[i], "release")
Replies(i) == SelectSeq(log[i], LAMBDA e : e.ev = "reply")
RaisedAt(i, sites) ==
    \E k \in 1..Len(log[i]) : log[i][k].ev = "raise" /\ log[i][k].kind \in sites

TrySites == {"extract", "generation", "reply"}
CleanupSites == {"handler", "finally"}
EarlySites == {"get_sender_id", "config.get", "debug_log", "check_rate_limit"}

(* C1 as stated: every invocation that runs to completion, whichever branch
   it took (admission denied included), has invoked
   rate_limiter.remove_processing exactly once. *)
C1_ReleaseOnceOnEveryBranch ==
    \A i \in Inv : pc[i] = "done" => Releases(i) = 1

(* C1 amended: remove_processing is never invoked more than once; an
   admitted invocation that has ended (returned, been closed, or raised to
   its caller) has invoked it exactly once; an invocation that was denied
   admission has invoked it zero times. *)
C1_ReleaseOnceWhenAdmitted ==
    \A i \in Inv :
        /\ Releases(i) <= 1
        /\ Terminal(i) /\ Admitted(i) => Releases(i) = 1
        /\ Terminal(i) /\ ~Admitted(i) => Releases(i) = 0

C1_Witness ==
    \E i \in Inv :
        /\ pc[i] = "done"
        /\ Admitted(i)
        /\ HasReply(log[i], "result")
        /\ Releases(i) = 1

(* C2 as stated: no exception raised by a collaborator ever reaches the
   caller of image2image_command. *)
C2_NoExceptionReachesCaller ==
    \A i \in Inv : pc[i] = "propagated" => exc[i] = Some("CancelledError")

(* C2 amended: an exception a collaborator raises inside the try statement
   (image extraction, generation, debug logging or reply construction) is
   caught: unless the except or finally block itself raises, the invocation
   emits next an error reply carrying the exception's text, releases the
   claim once and raises nothing to its caller.  A collaborator exception
   reaches the caller exactly when it was raised before the try statement
   (sender id, config, first debug log, check_rate_limit), in which case no
   reply was emitted and nothing released, or by the except or finally block
   (the release included), in which case the release was still invoked. *)
C2_ExceptionsInsideTryAreCaught ==
    \A i \in Inv :
        /\ \A k \in 1..Len(log[i]) :
              log[i][k].ev = "raise" /\ log[i][k].kind \in TrySites =>
                 \/ k = Len(log[i]) /\ pc[i] = "except"
                 \/ k < Len(log[i]) /\ log[i][k + 1] = Reply("error", log[i][k].val)
                 \/ k < Len(log[i]) /\ log[i][k + 1].ev = "raise"
                                    /\ log[i][k + 1].kind = "handler"
        /\ Terminal(i) /\ RaisedAt(i, TrySites) /\ ~RaisedAt(i, CleanupSites) =>
              /\ pc[i] # "propagated"
              /\ Releases(i) = 1
        /\ pc[i] = "propagated" /\ exc[i] # Some("CancelledError") =>
              \/ RaisedAt(i, EarlySites) /\ Replies(i) = <<>> /\ Releases(i) = 0
              \/ RaisedAt(i, CleanupSites) /\ Releases(i) = 1

C2_Witness ==
    \E i \in Inv :
        /\ pc[i] = "done"
        /\ RaisedAt(i, {"reply"})
        /\ Has(log[i], "gen_return")
        /\ HasReply(log[i], "error")
        /\ Releases(i) = 1

(* C3: every admitted invocation eventually releases its claim for user_id
   (given that the consumer keeps pulling and the awaited calls end), and the
   release comes before the reply sequence is reported complete: when the
   generator is done the release is the last thing it did, and the step
   that leaves the finally block leaves user_id unmarked. *)
C3_ReleaseBeforeCompletion ==
    /\ \A i \in Inv : Admitted(i) ~> (Releases(i) = 1)
    /\ [](\A i \in Inv :
             pc[i] = "done" /\ Admitted(i) =>
                log[i][Len(log[i])].ev = "release" /\ Releases(i) = 1)
    /\ [][\A i \in Inv :
             pc[i] = "finally" /\ pc'[i] # "finally" =>
                req[i].user \notin processing']_vars

C3_Witness ==
    \E i \in Inv :
        /\ pc[i] = "done"
        /\ Admitted(i)
        /\ HasReply(log[i], "error")
        /\ log[i][Len(log[i])].ev = "release"
        /\ req[i].user \notin processing

(* C4: an invocation the limiter denies (in particular a second one for a
   user whose first is in flight) emits the limiter's rejection and nothing
   else, and stops: no prompt check, no image extraction, no generation
   call. *)
C4_DeniedDoesNothingElse ==
    \A i \in Inv :
        Denied(i) =>
            /\ Replies(i) = <<Reply("rejected", <<>>)>>
            /\ ~Has(log[i], "extract")
            /\ ~Has(log[i], "gen_call")
            /\ image_paths[i] = <<>>
            /\ pc[i] \in {"yield_denied", "done", "closed"}

C4_Witness ==
    \E i, j \in Inv :
        /\ i # j
        /\ req[i].user = req[j].user
        /\ pc[i] = "await_gen"
        /\ Denied(j)
        /\ pc[j] = "done"

(* C5: a denied invocation never calls remove_processing, and none of its
   steps changes the limiter's in-flight marks. *)
C5_DeniedNeverReleases ==
    /\ [](\A i \in Inv : Denied(i) => Releases(i) = 0)
    /\ [][\A i \in Inv :
             pc'[i] # pc[i] /\ (Denied(i))' => processing' = processing]_vars

C5_Witness ==
    \E i, j \in Inv :
        /\ i # j
        /\ req[i].user = req[j].user
        /\ Admitted(i)
        /\ pc[i] = "yield_ack"
        /\ req[i].user \in processing
        /\ Denied(j)
        /\ pc[j] = "done"
        /\ Releases(j) = 0

InRange(v, lo, hi) == lo <= v /\ v <= hi

(* C6: api_client.image2image is called only by an admitted invocation with
   a non-empty prompt, exactly one extracted image, steps in [1,100] and
   guidance_scale in [1.0,20.0], and it is passed that prompt, that single
   path and those values; a request failing any of these never calls it. *)
C6_GenerationOnlyWhenValid ==
    \A i \in Inv : \A k \in 1..Len(log[i]) :
        log[i][k].ev = "gen_call" =>
            /\ Admitted(i)
            /\ req[i].prompt # ""
            /\ Len(req[i].images) = 1
            /\ image_paths[i] = req[i].images
            /\ InRange(steps[i][1], 1, 100)
            /\ InRange(guidance_scale[i][1], 100, 2000)
            /\ log[i][k].val =
                  <<req[i].prompt, req[i].images[1], steps[i][1], guidance_scale[i][1]>>

C6_Witness ==
    \E i \in Inv :
        /\ pc[i] = "await_gen"
        /\ Has(log[i], "gen_call")
        /\ req[i].images = <<"b.png">>
        /\ steps[i] = Some(100)
        /\ guidance_scale[i] = Some(100)

ReachedRangeChecks(i) ==
    Admitted(i) /\ req[i].prompt # "" /\ Len(image_paths[i]) = 1

(* C7 as stated: every request (taken here with admission granted) whose
   steps lies outside [1,100] is answered with a message containing that
   value, and so is every request whose guidance_scale lies outside
   [1.0,20.0]. *)
C7_OutOfRangeAlwaysReported ==
    \A i \in Inv :
        pc[i] = "done" /\ Admitted(i) =>
            /\ ~InRange(steps[i][1], 1, 100) =>
                  /\ \E k \in 1..Len(log[i]) :
                        log[i][k] = Reply("steps_error", <<steps[i][1]>>)
                  /\ ~Has(log[i], "gen_call")
            /\ ~InRange(guidance_scale[i][1], 100, 2000) =>
                  /\ \E k \in 1..Len(log[i]) :
                        log[i][k] = Reply("guidance_error", <<guidance_scale[i][1]>>)
                  /\ ~Has(log[i], "gen_call")

(* C7 amended: no request whose steps lies outside [1,100] or whose
   guidance_scale lies outside [1.0,20.0] ever invokes generation.  A
   request that reaches the range checks (admitted, non-empty prompt, exactly
   one extracted image) is answered with one message containing the steps
   value when that is out of range, else with one message containing the
   guidance_scale value when that is out of range, else with the
   acknowledgment: 1, 100, 1.0 and 20.0 are accepted, 0, 101, 0.99 and 20.01
   rejected. *)
C7_OutOfRangeReportedAtRangeCheck ==
    \A i \in Inv :
        /\ steps[i] # None /\ ~(InRange(steps[i][1], 1, 100)
                                /\ InRange(guidance_scale[i][1], 100, 2000)) =>
              ~Has(log[i], "gen_call")
        /\ ReachedRangeChecks(i) =>
              Replies(i)[1] =
                 IF steps[i][1] \notin 1..100
                 THEN Reply("steps_error", <<steps[i][1]>>)
                 ELSE IF guidance_scale[i][1] \notin 100..2000
                 THEN Reply("guidance_error", <<guidance_scale[i][1]>>)
                 ELSE Reply("ack", <<steps[i][1], guidance_scale[i][1]>>)
        /\ ReachedRangeChecks(i) /\ pc[i] = "done"
             /\ ~(InRange(steps[i][1], 1, 100) /\ InRange(guidance_scale[i][1], 100, 2000)) =>
              Len(Replies(i)) = 1

C7_Witness ==
    \E i \in Inv :
        /\ pc[i] = "done"
        /\ ReachedRangeChecks(i)
        /\ steps[i] = Some(100)
        /\ guidance_scale[i] = Some(2001)
        /\ Replies(i) = <<Reply("guidance_error", <<2001>>)>>

(* C8: the acknowledgment carrying the resolved steps and guidance_scale is
   the reply handed to the consumer just before the generation call starts;
   while the call is pending it is the only reply; and a reply that follows
   the call (result or error) comes only after the call returned or raised. *)
C8_AckBeforeGenerationResultAfter ==
    \A i \in Inv :
        /\ \A k \in 1..Len(log[i]) :
              log[i][k].ev = "gen_call" =>
                 /\ k > 1
                 /\ log[i][k - 1] = Reply("ack", <<steps[i][1], guidance_scale[i][1]>>)
                 /\ \A n \in (k + 1)..Len(log[i]) :
                       log[i][n].ev = "reply" =>
                          \E m \in (k + 1)..(n - 1) :
                             log[i][m].ev = "gen_return"
                             \/ (log[i][m].ev = "raise" /\ log[i][m].kind = "generation")
        /\ pc[i] = "await_gen" =>
              /\ Replies(i) = <<Reply("ack", <<steps[i][1], guidance_scale[i][1]>>)>>
              /\ log[i][Len(log[i])].ev = "gen_call"
        /\ HasReply(log[i], "result") => Has(log[i], "gen_return")

C8_Witness ==
    \E i \in Inv :
        /\ pc[i] = "yield_result"
        /\ Len(Replies(i)) = 2
        /\ Replies(i)[1].kind = "ack"
        /\ Replies(i)[2].kind = "result"

(* C9: when the generation call raises with message m, the handler emits
   next one plain reply containing m and no other error reply, emits no
   composite reply, has called generation once only, and an invocation that
   has ended has released the claim once. *)
C9_GenerationFailureReported ==
    \A i \in Inv : \A k \in 1..Len(log[i]) :
        log[i][k].ev = "raise" /\ log[i][k].kind = "generation" =>
            /\ Count(log[i], "gen_call") = 1
            /\ ~HasReply(log[i], "result")
            /\ \/ pc[i] = "except" /\ k = Len(log[i])
               \/ /\ k < Len(log[i])
                  /\ log[i][k + 1] = Reply("error", log[i][k].val)
                  /\ Len(Replies(i)) = 2
                  /\ Replies(i)[2] = Reply("error", log[i][k].val)
            /\ Terminal(i) => Releases(i) = 1 /\ req[i].user \notin processing

C9_Witness ==
    \E i \in Inv :
        /\ pc[i] = "done"
        /\ Has(log[i], "gen_call")
        /\ Replies(i)[2] = Reply("error", <<"timeout">>)
        /\ Releases(i) = 1

Configured(entry, fallback) == IF entry = <<>> THEN fallback ELSE entry[1]

(* C10: once resolved, steps is the request's value when one was supplied
   and otherwise the configured image2image_steps (25 when not configured),
   and guidance_scale likewise (image2image_guidance_scale, 6.0); these
   resolved values are the ones the range messages name, the acknowledgment
   echoes and the generation call is passed. *)
C10_DefaultsResolved ==
    \A i \in Inv :
        steps[i] # None =>
            LET s == IF req[i].steps # <<>> THEN req[i].steps[1]
                     ELSE Configured(cfg.image2image_steps, 25)
                g == IF req[i].guidance_scale # <<>> THEN req[i].guidance_scale[1]
                     ELSE Configured(cfg.image2image_guidance_scale, 600)
            IN  /\ steps[i] = <<s>>
                /\ guidance_scale[i] = <<g>>
                /\ \A k \in 1..Len(log[i]) :
                      /\ log[i][k].ev = "reply" /\ log[i][k].kind = "ack" =>
                            log[i][k].val = <<s, g>>
                      /\ log[i][k].ev = "reply" /\ log[i][k].kind = "steps_error" =>
                            log[i][k].val = <<s>> /\ s \notin 1..100
                      /\ log[i][k].ev = "reply" /\ log[i][k].kind = "guidance_error" =>
                            log[i][k].val = <<g>> /\ g \notin 100..2000
                      /\ log[i][k].ev = "gen_call" =>
                            log[i][k].val[3] = s /\ log[i][k].val[4] = g
                                /\ s \in 1..100 /\ g \in 100..2000

C10_Witness ==
    \E i \in Inv :
        /\ req[i].steps = None
        /\ req[i].guidance_scale = None
        /\ cfg = NoConfig
        /\ HasReply(log[i], "ack")
        /\ Has(log[i], "gen_call")
        /\ steps[i] = Some(25)
        /\ guidance_scale[i] = Some(600)

(* The reply the guards owe a request, by the order of the guards. *)
EarliestFailure(r, s, g) ==
    IF r.prompt = "" THEN Reply("usage", <<>>)
    ELSE IF Len(r.images) = 0 THEN Reply("missing_image", <<>>)
    ELSE IF Len(r.images) >= 2 THEN Reply("too_many_images", <<>>)
    ELSE IF s \notin 1..100 THEN Reply("steps_error", <<s>>)
    ELSE IF g \notin 100..2000 THEN Reply("guidance_error", <<g>>)
    ELSE Reply("ack", <<s, g>>)

(* C11: the guards of an admitted invocation run in the order prompt, image
   extraction, zero images, several images, steps, guidance_scale: the first
   reply is the one of the earliest guard the request fails, it is the only
   reply, no generation call follows and the invocation ends; the extractor
   is called before the image guards answer, and never for an empty
   prompt. *)
C11_GuardsInOrder ==
    \A i \in Inv :
        /\ req[i].prompt = "" => ~Has(log[i], "extract")
        /\ Admitted(i) /\ Replies(i) # <<>> /\ ~RaisedAt(i, {"extract"}) =>
              LET owed == EarliestFailure(req[i], steps[i][1], guidance_scale[i][1])
              IN  /\ Replies(i)[1] = owed
                  /\ req[i].prompt # "" =>
                        /\ log[i][2].ev = "extract"
                        /\ log[i][3] = owed
                  /\ owed.kind # "ack" =>
                        /\ Len(Replies(i)) = 1
                        /\ ~Has(log[i], "gen_call")
                        /\ pc[i] \in {"yield_fail", "finally", "done", "closed"}

C11_Witness ==
    \E i \in Inv :
        /\ pc[i] = "done"
        /\ req[i].prompt = "cat"
        /\ Len(req[i].images) = 2
        /\ steps[i] = Some(0)
        /\ guidance_scale[i] = Some(99)
        /\ Replies(i) = <<Reply("too_many_images", <<>>)>>

FailureKinds ==
    {"usage", "missing_image", "too_many_images", "steps_error", "guidance_error"}

(* C12: an invocation never emits more than two replies nor calls generation
   more than once; one that has run to completion has emitted at least one
   reply: exactly one, the rejection, when admission was denied; exactly one
   when a guard failed; and exactly two once the guards passed, the
   acknowledgment and then either the composite result or the error reply,
   never both, with exactly one generation call. *)
C12_OneOrTwoReplies ==
    \A i \in Inv :
        /\ Len(Replies(i)) <= 2
        /\ Count(log[i], "gen_call") <= 1
        /\ ~(HasReply(log[i], "result") /\ HasReply(log[i], "error"))
        /\ pc[i] = "done" =>
              /\ Len(Replies(i)) >= 1
              /\ Denied(i) => Replies(i) = <<Reply("rejected", <<>>)>>
              /\ Replies(i)[1].kind \in FailureKinds => Len(Replies(i)) = 1
              /\ Replies(i)[1].kind = "ack" =>
                    /\ Len(Replies(i)) = 2
                    /\ Replies(i)[2].kind \in {"result", "error"}
                    /\ Count(log[i], "gen_call") = 1
              /\ Len(Replies(i)) = 2 => Replies(i)[1].kind = "ack"

C12_Witness ==
    \E i \in Inv :
        /\ pc[i] = "done"
        /\ Count(log[i], "gen_call") = 1
        /\ Len(Replies(i)) = 2
        /\ Replies(i)[1].kind = "ack"
        /\ Replies(i)[2].kind = "result"

InFlight(i) == Admitted(i) /\ Releases(i) = 0

(* C13: with a limiter that denies a key marked in flight, under every
   interleaving at most one invocation per user_id is between its admission
   and its release, its user is marked meanwhile, and so at most one
   generation call per user is pending; the mark of a user is cleared only
   by a step of the admitted invocation of that user, the one that leaves
   its finally block and ends it, never by a denied invocation. *)
C13_OneInFlightPerUser ==
    /\ [](\A i, j \in Inv :
             /\ InFlight(i) => req[i].user \in processing
             /\ i # j /\ req[i].user = req[j].user =>
                   /\ ~(InFlight(i) /\ InFlight(j))
                   /\ ~(pc[i] = "await_gen" /\ pc[j] = "await_gen"))
    /\ [][\A u \in Users :
             u \in processing /\ u \notin processing' =>
                \E i \in Inv :
                   /\ req[i].user = u
                   /\ InFlight(i)
                   /\ pc[i] = "finally"
                   /\ pc'[i] \in {"done", "closed", "propagated"}
                   /\ log'[i] = Append(log[i], Event("release", "", <<>>))
                   /\ \A j \in Inv \ {i} : pc'[j] = pc[j] /\ log'[j] = log[j]]_vars

C13_Witness ==
    \E i, j \in Inv :
        /\ i # j
        /\ req[i].user = req[j].user
        /\ InFlight(i)
        /\ pc[i] = "yield_result"
        /\ Denied(j)
        /\ pc[j] = "done"
        /\ processing = {req[i].user}

(* C14: when the host closes an admitted invocation suspended at a reply
   hand-off, or cancels it while it awaits image extraction or generation,
   the finally block still runs: nothing is emitted after the cancellation,
   in particular no error reply, and once the invocation has ended the
   release has been invoked exactly once. *)
C14_CleanupOnCancel ==
    \A i \in Inv : \A k \in 1..Len(log[i]) :
        Admitted(i) /\ log[i][k].ev = "cancel" =>
            /\ log[i][k - 1].ev =
                  IF log[i][k].kind = "close" THEN "reply"
                  ELSE IF Has(log[i], "gen_call") THEN "gen_call" ELSE "extract"
            /\ \A n \in (k + 1)..Len(log[i]) :
                  log[i][n].ev # "reply" /\ log[i][n].ev # "gen_call"
            /\ pc[i] \in {"finally", "closed", "propagated"}
            /\ Releases(i) = IF pc[i] = "finally" THEN 0 ELSE 1

C14_Witness ==
    \E i \in Inv :
        /\ pc[i] = "propagated"
        /\ exc[i] = Some("CancelledError")
        /\ log[i][Len(log[i]) - 1] = Event("cancel", "cancel", <<>>)
        /\ Has(log[i], "gen_call")
        /\ Replies(i) = <<Reply("ack", <<steps[i][1], guidance_scale[i][1]>>)>>
        /\ Releases(i) = 1

====
